---- MODULE Spec2Model ----
(***************************************************************************)
(* usehooks-ts: the useAsync hook (async operation tracker) and the        *)
(* useCopyToClipboard hook (clipboard writer), as state machines.          *)
(*                                                                         *)
(* One action is one synchronous run of JavaScript: the event loop runs a  *)
(* handler to completion (or to its first await) before anything else      *)
(* runs.  An `await` splits a function in two: the part up to the await    *)
(* (Execute, Copy) and the continuation after the awaited promise settled  *)
(* (Resume, CopyResume).  The settlement of the awaited promise is the     *)
(* environment's step (OpSettle, WriteSettle).                             *)
(***************************************************************************)
EXTENDS Integers, Sequences, FiniteSets, TLC

\* ------------------------------------------------------------------ bounds
\* execute() calls in one run of the tracker (automatic ones included)
MaxInv == 2
\* copy() calls in one run of the clipboard writer
MaxCopies == 2
\* the same two, where a consumer uses both hooks
HooksMaxInv == 1
HooksMaxCopies == 1

\* ------------------------------------------------------- JavaScript values
\* A value: null, a string, a number, or an Error object.  `ref` tells two
\* objects with the same content apart (object identity); 0 where identity
\* does not matter (primitives).
Null == [type |-> "null", str |-> "", num |-> 0, ref |-> 0]
Str(s) == [type |-> "string", str |-> s, num |-> 0, ref |-> 0]
Num(n) == [type |-> "number", str |-> "", num |-> n, ref |-> 0]
\* an Error object that exists before the hook sees it (thrown by the operation)
ErrObj(msg, r) == [type |-> "Error", str |-> msg, num |-> 0, ref |-> r]
\* `new Error(msg)` evaluated inside the hook: a fresh object, ref 0
NewError(msg) == [type |-> "Error", str |-> msg, num |-> 0, ref |-> 0]

\* the values the wrapped operation resolves to in the tests
Results == {Str("first"), Str("second")}
\* the values it rejects with: an Error object and a value that is no Error
testError == ErrObj("Test error", 1)
Thrown == {testError, Num(42)}

DigitStr(d) ==
  CASE d = 0 -> "0" [] d = 1 -> "1" [] d = 2 -> "2" [] d = 3 -> "3"
    [] d = 4 -> "4" [] d = 5 -> "5" [] d = 6 -> "6" [] d = 7 -> "7"
    [] d = 8 -> "8" [] d = 9 -> "9"

RECURSIVE NatStr(_)
NatStr(n) == IF n < 10 THEN DigitStr(n) ELSE NatStr(n \div 10) \o DigitStr(n % 10)

\* String(v)
String(v) ==
  CASE v.type = "string" -> v.str
    [] v.type = "number" -> IF v.num < 0 THEN "-" \o NatStr(0 - v.num) ELSE NatStr(v.num)
    [] v.type = "null" -> "null"
    [] v.type = "Error" -> "Error: " \o v.str

\* err instanceof Error
InstanceofError(v) == v.type = "Error"

\* err instanceof Error ? err : new Error(String(err))
NormalizeError(err) == IF InstanceofError(err) THEN err ELSE NewError(String(err))

\* --------------------------------------------------------------- useAsync
\* the functions a consumer passes as asyncFunction
Fns == {"firstFunction", "secondFunction"}

VARIABLES
  status,            \* useState<Status>('idle')
  data,              \* useState<T | null>(null)
  error,             \* useState<Error | null>(null)
  isMountedRef,      \* useRef(true)
  asyncFunctionRef,  \* useRef(asyncFunction)
  asyncFunction,     \* the hook's first argument at the latest render
  immediate,         \* options.immediate (default true) at the latest render
  phase,             \* "rendered" (first render done, effect not yet run),
                     \* "mounted", "unmounted"
  invs,              \* the execute() calls so far, in call order
  calls,             \* how often each function was invoked
  last               \* the step taken last (history): "init", "mount",
                     \* "rerender" (a render whose effect called execute()),
                     \* "execute", "resume", "reset", or "other" for a step
                     \* that runs neither execute() nor reset(); inv is the
                     \* execute() call the step made or continued

avars == <<status, data, error, isMountedRef, asyncFunctionRef, asyncFunction,
           immediate, phase, invs, calls, last>>

VARIABLES
  copiedText,        \* useState<CopiedValue>(null)
  clipboard,         \* whether navigator.clipboard exists
  copies,            \* the copy() calls so far, in call order
  writes             \* the texts navigator.clipboard.writeText was called with

cvars == <<copiedText, clipboard, copies, writes>>

vars == <<avars, cvars>>

cells == <<status, data, error>>

\* `last` after a step that runs neither execute() nor reset()
Other == [op |-> "other", inv |-> 0]

\* one execute() call: `st` is "pending" (awaiting the operation's promise),
\* "settled" (the promise settled, the continuation is queued) or "done"
\* (execute's own promise is settled: `completion`); ok and val are how the
\* operation's promise settled; seq records that every earlier call had
\* completed when this one was made (history)
NewInv ==
  [st |-> "pending", ok |-> FALSE, val |-> Null,
   completion |-> "none", seq |-> \A i \in 1..Len(invs) : invs[i].st = "done"]

\* a retry: the operation is invoked a second time
InvokeOpTwice(fn) == [calls EXCEPT ![fn] = @ + 2]

\* the operation is invoked once, here
InvokeOp(fn) == [calls EXCEPT ![fn] = @ + 1]

\* the setters without setData(null): the previous result stays visible
StartCellsKeepsData ==
  /\ status' = "loading"
  /\ error' = Null
  /\ UNCHANGED data

\* the setters without setError(null): the previous failure stays visible
StartCellsKeepsError ==
  /\ status' = "loading"
  /\ data' = Null
  /\ UNCHANGED error

\* execute(), its first three statements: the setters
StartCells ==
  /\ status' = "loading"
  /\ data' = Null
  /\ error' = Null

\* execute(), up to its await: the three setters, then the call of
\* asyncFunctionRef.current, which is `ref` when execute() runs
ExecuteCall(ref) ==
  /\ StartCells
  /\ calls' = InvokeOp(ref)
  /\ invs' = Append(invs, NewInv)

\* the effect: isMountedRef.current = true; if (immediate) execute()
Effect(imm, ref) ==
  /\ isMountedRef' = TRUE
  /\ IF imm
       THEN ExecuteCall(ref)
       ELSE UNCHANGED <<cells, calls, invs>>

\* the index of the execute() call the effect makes, 0 when it makes none
NewCall(imm) == IF imm THEN Len(invs) + 1 ELSE 0

\* the ref is written at the first render only: a stale closure
RefreshRefStale(fn) == asyncFunctionRef

\* asyncFunctionRef.current = asyncFunction, on every render
RefreshRef(fn) == fn

\* the effect's dependency list [execute, immediate]: execute is memoised with
\* no dependencies and never changes, so only a new immediate re-runs the effect
EffectDepsChanged(imm) == imm # immediate

\* the hook becomes active: the effect runs for the first time
Mount ==
  /\ phase = "rendered"
  /\ phase' = "mounted"
  /\ Effect(immediate, asyncFunctionRef)
  /\ last' = [op |-> "mount", inv |-> NewCall(immediate)]
  /\ UNCHANGED <<asyncFunctionRef, asyncFunction, immediate>>

\* the consumer renders again with (fn, imm): the ref is refreshed during the
\* render, before the effects of that render run; the effect's dependencies
\* are [execute, immediate] and execute is stable, so the effect is cleaned up
\* and run again exactly when immediate changed
Rerender(fn, imm) ==
  /\ phase = "mounted"
  /\ asyncFunction' = fn
  /\ immediate' = imm
  /\ asyncFunctionRef' = RefreshRef(fn)
  /\ IF EffectDepsChanged(imm)
       THEN /\ Effect(imm, asyncFunctionRef')
            /\ last' = IF imm THEN [op |-> "rerender", inv |-> NewCall(imm)]
                              ELSE Other
       ELSE /\ UNCHANGED <<isMountedRef, cells, calls, invs>>
            /\ last' = Other
  /\ UNCHANGED phase

\* the consumer is torn down: the effect's cleanup
Unmount ==
  /\ phase = "mounted"
  /\ phase' = "unmounted"
  /\ isMountedRef' = FALSE
  /\ last' = Other
  /\ UNCHANGED <<cells, asyncFunctionRef, asyncFunction, immediate, invs, calls>>

\* the consumer calls execute(): the hook returns execute and reset to its
\* consumer, which calls them while it is live
Execute ==
  /\ phase = "mounted"
  /\ ExecuteCall(asyncFunctionRef)
  /\ last' = [op |-> "execute", inv |-> Len(invs) + 1]
  /\ UNCHANGED <<isMountedRef, asyncFunctionRef, asyncFunction, immediate, phase>>

\* the promise the operation returned for call i settles: fulfilled with val
\* (ok) or rejected with val
OpSettle(i, ok, val) ==
  /\ invs[i].st = "pending"
  /\ invs' = [invs EXCEPT ![i] = [@ EXCEPT !.st = "settled", !.ok = ok, !.val = val]]
  /\ last' = Other
  /\ UNCHANGED <<cells, isMountedRef, asyncFunctionRef, asyncFunction, immediate,
                 phase, calls>>

\* the try branch without the isMountedRef check
OnFulfilledUnchecked(response) ==
  /\ data' = response
  /\ status' = "success"
  /\ UNCHANGED error

\* after the await, the try branch: the operation's promise was fulfilled
OnFulfilled(response) ==
  IF isMountedRef
    THEN /\ data' = response
         /\ status' = "success"
         /\ UNCHANGED error
    ELSE UNCHANGED cells

\* a catch branch that drops the failure once reset() has put the tracker
\* back to idle
OnRejectedUnlessReset(err) ==
  IF isMountedRef /\ status # "idle"
    THEN /\ error' = NormalizeError(err)
         /\ status' = "error"
         /\ UNCHANGED data
    ELSE UNCHANGED cells

\* after the await, the catch branch: the operation's promise was rejected
OnRejected(err) ==
  IF isMountedRef
    THEN /\ error' = NormalizeError(err)
         /\ status' = "error"
         /\ UNCHANGED data
    ELSE UNCHANGED cells

\* without the catch, a rejection of the operation rejects execute()
CompletionUncaught(ok) == IF ok THEN "fulfilled" ELSE "rejected"

\* how execute's own promise ends: both branches fall off the end of the
\* function, the catch swallows the rejection
Completion(ok) == "fulfilled"

\* execute(), after its await, for call i
Resume(i) ==
  /\ i \in 1..Len(invs)
  /\ invs[i].st = "settled"
  /\ IF invs[i].ok THEN OnFulfilled(invs[i].val) ELSE OnRejected(invs[i].val)
  /\ invs' = [invs EXCEPT ![i] = [@ EXCEPT !.st = "done",
                                            !.completion = Completion(invs[i].ok)]]
  /\ last' = [op |-> "resume", inv |-> i]
  /\ UNCHANGED <<isMountedRef, asyncFunctionRef, asyncFunction, immediate, phase, calls>>

\* reset() without setError(null)
ResetCellsKeepsError ==
  /\ status' = "idle"
  /\ data' = Null
  /\ UNCHANGED error

\* reset(): the three setters
ResetCells ==
  /\ status' = "idle"
  /\ data' = Null
  /\ error' = Null

\* the consumer calls reset()
Reset ==
  /\ phase = "mounted"
  /\ ResetCells
  /\ last' = [op |-> "reset", inv |-> 0]
  /\ UNCHANGED <<isMountedRef, asyncFunctionRef, asyncFunction, immediate, phase,
                 invs, calls>>

\* a tracker that starts in loading
InitialStatusLoading == "loading"

\* the initial values of the three state cells
InitialStatus == "idle"
InitialData == Null
InitialError == Null

\* a loading flag that is also up before the first call
loadingUnlessSettled == status \notin {"success", "error"}

\* loading: status === 'loading'
loading == status = "loading"

\* ------------------------------------------------------ useCopyToClipboard
\* the texts a consumer copies
Texts == {"Test value", "other"}

\* a callback of CopyOptions: not given, given and returning, given and throwing
Callbacks == {"none", "returns", "throws"}

\* what a throwing callback throws
callbackError == ErrObj("callback failed", 2)

\* what navigator.clipboard.writeText rejects with
mockError == ErrObj("Write failed", 3)
WriteThrown == {mockError, Str("string error"), Num(42)}

\* new Error('Clipboard not supported')
NotSupported == NewError("Clipboard not supported")

\* the initial value of the state cell
InitialCopiedText == Null

\* one copy() call: `st` is "writing" (awaiting writeText), "settled" (its
\* promise settled, the continuation is queued) or "done"; `result` is what
\* copy's own promise settled with; nSuccess and nError count the calls of the
\* two callbacks, errArg is the error onError was called with
NewCopy(text, onSuccess, onError) ==
  [text |-> text, onSuccess |-> onSuccess, onError |-> onError, st |-> "writing",
   ok |-> FALSE, val |-> Null, result |-> "none", nSuccess |-> 0, nError |-> 0,
   errArg |-> Null]

\* if (options?.onError) options.onError({ error, text }); return false
\* -- a callback that throws makes the async function reject
ReportError(c, err) ==
  [c EXCEPT !.st = "done",
            !.nError = IF c.onError # "none" THEN @ + 1 ELSE @,
            !.errArg = IF c.onError # "none" THEN err ELSE @,
            !.result = IF c.onError = "throws" THEN "rejected" ELSE "false"]

\* the branch taken when navigator.clipboard is missing
CopyUnsupported(text, onSuccess, onError) ==
  /\ copies' = Append(copies, ReportError(NewCopy(text, onSuccess, onError), NotSupported))
  /\ UNCHANGED <<copiedText, writes>>

\* the try block up to its await: writeText(text) is called
CopyWrite(text, onSuccess, onError) ==
  /\ writes' = Append(writes, text)
  /\ copies' = Append(copies, NewCopy(text, onSuccess, onError))
  /\ UNCHANGED copiedText

\* the consumer calls copy(text, { onSuccess, onError })
Copy(text, onSuccess, onError) ==
  /\ IF ~clipboard
       THEN CopyUnsupported(text, onSuccess, onError)
       ELSE CopyWrite(text, onSuccess, onError)
  /\ UNCHANGED clipboard

\* the promise writeText returned for call j settles
WriteSettle(j, ok, val) ==
  /\ copies[j].st = "writing"
  /\ copies' = [copies EXCEPT ![j] = [@ EXCEPT !.st = "settled", !.ok = ok, !.val = val]]
  /\ UNCHANGED <<copiedText, clipboard, writes>>

\* the catch block: setCopiedText(null), the error normalised, onError
CopyCatch(j, c, err) ==
  /\ copiedText' = Null
  /\ copies' = [copies EXCEPT ![j] = ReportError(c, NormalizeError(err))]

\* the try block after its await: setCopiedText(text), onSuccess, return true;
\* what onSuccess throws is caught by the catch block
CopyTry(j) ==
  LET c == copies[j]
      called == [c EXCEPT !.nSuccess = IF c.onSuccess # "none" THEN @ + 1 ELSE @]
  IN IF c.onSuccess = "throws"
       THEN CopyCatch(j, called, callbackError)
       ELSE /\ copiedText' = Str(c.text)
            /\ copies' = [copies EXCEPT ![j] = [called EXCEPT !.st = "done",
                                                               !.result = "true"]]

\* copy(), after its await, for call j
CopyResume(j) ==
  /\ j \in 1..Len(copies)
  /\ copies[j].st = "settled"
  /\ IF copies[j].ok THEN CopyTry(j) ELSE CopyCatch(j, copies[j], copies[j].val)
  /\ UNCHANGED <<clipboard, writes>>

\* the platform gains or loses navigator.clipboard
SetClipboard(b) ==
  /\ clipboard # b
  /\ clipboard' = b
  /\ UNCHANGED <<copiedText, copies, writes>>

\* ---------------------------------------------------------- specifications
AInit ==
  /\ status = InitialStatus
  /\ data = InitialData
  /\ error = InitialError
  /\ isMountedRef = TRUE
  /\ asyncFunction \in Fns
  /\ asyncFunctionRef = asyncFunction
  /\ immediate \in BOOLEAN
  /\ phase = "rendered"
  /\ invs = <<>>
  /\ calls = [f \in Fns |-> 0]
  /\ last = [op |-> "init", inv |-> 0]

CInit ==
  /\ copiedText = InitialCopiedText
  /\ clipboard = TRUE
  /\ copies = <<>>
  /\ writes = <<>>

Init == AInit /\ CInit

\* the steps of the async tracker, with at most `n` execute() calls in a run
ANext(n) ==
  \/ Mount /\ Len(invs') <= n /\ UNCHANGED cvars
  \/ \E fn \in Fns, imm \in BOOLEAN :
       Rerender(fn, imm) /\ Len(invs') <= n /\ UNCHANGED cvars
  \/ Unmount /\ UNCHANGED cvars
  \/ Execute /\ Len(invs') <= n /\ UNCHANGED cvars
  \/ \E i \in 1..Len(invs) : \E v \in Results :
       OpSettle(i, TRUE, v) /\ UNCHANGED cvars
  \/ \E i \in 1..Len(invs) : \E v \in Thrown :
       OpSettle(i, FALSE, v) /\ UNCHANGED cvars
  \/ \E i \in 1..Len(invs) : Resume(i) /\ UNCHANGED cvars
  \/ Reset /\ UNCHANGED cvars

\* the steps of the clipboard writer, with at most `n` copy() calls in a run,
\* of texts in T with callbacks in CB, writeText rejecting with values in W
CNext(n, T, CB, W) ==
  \/ \E t \in T, os \in CB, oe \in CB :
       Copy(t, os, oe) /\ Len(copies') <= n /\ UNCHANGED avars
  \/ \E j \in 1..Len(copies) : WriteSettle(j, TRUE, Null) /\ UNCHANGED avars
  \/ \E j \in 1..Len(copies) : \E v \in W :
       WriteSettle(j, FALSE, v) /\ UNCHANGED avars
  \/ \E j \in 1..Len(copies) : CopyResume(j) /\ UNCHANGED avars
  \/ \E b \in BOOLEAN : SetClipboard(b) /\ UNCHANGED avars

\* the async tracker alone
Next == ANext(MaxInv)

Spec == Init /\ [][Next]_vars

\* the clipboard writer alone
ClipNext == CNext(MaxCopies, Texts, Callbacks, WriteThrown)

ClipSpec == Init /\ [][ClipNext]_vars

\* a consumer that uses both hooks, copying one text without callbacks
HooksNext ==
  ANext(HooksMaxInv) \/ CNext(HooksMaxCopies, {"Test value"}, {"none"}, {mockError})

HooksSpec == Init /\ [][HooksNext]_vars

\* A continuation whose promise has settled is a queued microtask: the event
\* loop runs every queued microtask.
FairSpec == Spec /\ \A i \in 1..MaxInv : WF_vars(Resume(i) /\ UNCHANGED cvars)

\* ------------------------------------------------------ derived quantities
\* the step taken last was an execute() call (by the consumer or by the effect)
ExecutedLast == last.op \in {"execute", "mount", "rerender"} /\ last.inv > 0

\* the step taken last was the continuation of call last.inv
ResumedLast == last.op = "resume"

\* which of its three return statements a completed copy() call was heading
\* for: the capability was missing, the write succeeded, or the write failed
Outcome(c) ==
  IF c.ok THEN "written" ELSE IF c.val = Null THEN "unsupported" ELSE "failed"

RECURSIVE SumCalls(_)
SumCalls(S) == IF S = {} THEN 0 ELSE LET f == CHOOSE x \in S : TRUE
                                     IN calls[f] + SumCalls(S \ {f})

\* ------------------------------------------------------------------ claims

\* C1: right after the continuation of a call whose operation
\* fulfilled with v, the consumer being live, status = success, data = v and
\* error = null -- also when other calls are pending or have settled.
C1_SuccessState ==
  (ResumedLast /\ invs[last.inv].ok /\ isMountedRef)
    => (status = "success" /\ data = invs[last.inv].val /\ error = Null)

\* C2: right after the continuation of a call whose operation
\* rejected with e, the consumer being live, status = error, data = null and
\* error is e itself if e is an Error, otherwise a new Error whose message is
\* String(e) -- also when other calls are pending or have settled.
C2_ErrorState ==
  (ResumedLast /\ ~invs[last.inv].ok /\ isMountedRef)
    => /\ status = "error"
       /\ data = Null
       /\ LET e == invs[last.inv].val
          IN IF e.type = "Error"
               THEN error = e
               ELSE error.type = "Error" /\ error.ref = 0 /\ error.str = String(e)

\* C3: once the consumer is torn down, the continuation of a call (fulfilled
\* or rejected) leaves status, data and error as they were.
C3_NoUpdateAfterTeardown ==
  [][(phase = "unmounted" /\ last'.op = "resume") => UNCHANGED cells]_vars

\* C3 witness: a call settled after teardown, and its continuation has run
C3_Witness ==
  /\ ResumedLast
  /\ phase = "unmounted"
  /\ invs[last.inv].ok
  /\ status = "loading"

\* C4: right after reset(), status = idle, data = null, error = null and
\* loading = false, whatever the state before.
C4_ResetState ==
  last.op = "reset" => (status = "idle" /\ data = Null /\ error = Null /\ ~loading)

\* C4 witness: reset() while a call is pending, after an earlier call failed
C4_Witness ==
  /\ last.op = "reset"
  /\ \E i \in 1..Len(invs) : invs[i].st = "pending"
  /\ \E i \in 1..Len(invs) : invs[i].st = "done" /\ ~invs[i].ok
  /\ isMountedRef

\* C5: right after any execute() call, status = loading, data = null and
\* error = null, and the call is still awaiting its operation.
C5_StartState ==
  ExecutedLast
    => /\ status = "loading" /\ loading
       /\ data = Null
       /\ error = Null
       /\ invs[last.inv].st = "pending"

\* C5 witness: execute() after a success: the earlier result is gone while
\* the new call is pending
C5_Witness ==
  /\ last.op = "execute"
  /\ last.inv = 2
  /\ invs[1].st = "done" /\ invs[1].ok
  /\ invs[2].seq
  /\ data = Null /\ status = "loading"

\* C6: every execute() call invokes the function supplied at the latest
\* render, once, and no other function.
C6_LatestFunction ==
  [][Len(invs') = Len(invs) + 1
       => calls' = [calls EXCEPT ![asyncFunction'] = @ + 1]]_vars

\* C6 witness: rendered with firstFunction, rendered again with
\* secondFunction, then execute(): firstFunction was never invoked
C6_Witness ==
  /\ last.op = "execute"
  /\ asyncFunction = "secondFunction"
  /\ calls["firstFunction"] = 0
  /\ calls["secondFunction"] = 1

\* C7: becoming active makes exactly one automatic invocation when the
\* option is true and none when it is false; no step after that makes an
\* automatic invocation; and with no execute() call so far the operation was
\* never invoked and the tracker is idle.
C7_OneAutomaticCall ==
  /\ last.op = "mount" => SumCalls(Fns) = (IF immediate THEN 1 ELSE 0)
  /\ last.op # "rerender"
  /\ Len(invs) = 0 => (SumCalls(Fns) = 0 /\ status = "idle")

\* C8: until the first execute() call (by the consumer or by the effect) the
\* tracker is idle with data = null, error = null and loading = false, and
\* until the first copy() call copiedText = null.
C8_InitialState ==
  /\ Len(invs) = 0 => (status = "idle" /\ data = Null /\ error = Null /\ ~loading)
  /\ Len(copies) = 0 => copiedText = Null

\* C8 witness: an active tracker that is not run immediately and a clipboard
\* writer, neither used yet
C8_Witness ==
  /\ phase = "mounted"
  /\ ~immediate
  /\ Len(invs) = 0
  /\ Len(copies) = 0
  /\ status = "idle" /\ copiedText = Null

C10_OncePerCall ==
  /\ SumCalls(Fns) = Len(invs)
  /\ (/\ ResumedLast /\ last.inv = 2
      /\ invs[2].seq /\ invs[1].ok /\ invs[2].ok
      /\ isMountedRef)
       => data = invs[2].val

\* C10 witness: two sequential calls, "first" then "second"
C10_Witness ==
  /\ ResumedLast /\ last.inv = 2
  /\ invs[2].seq
  /\ invs[1].ok /\ invs[1].val = Str("first")
  /\ invs[2].ok /\ invs[2].val = Str("second")
  /\ phase = "mounted"
  /\ SumCalls(Fns) = 2
  /\ data = Str("second")

\* C11: in every state the loading flag the hook returns is true exactly
\* when status = loading, and no step changes the flag without changing
\* status.
C11_LoadingDerived ==
  /\ loading \in BOOLEAN
  /\ loading <=> (status = "loading")
  /\ status \in {"idle", "success", "error"} => ~loading

\* C11 witness: a second call is pending after the first one failed: the flag
\* is up again
C11_Witness ==
  /\ loading
  /\ Len(invs) = 2
  /\ invs[1].st = "done" /\ ~invs[1].ok
  /\ invs[2].st = "pending"
  /\ isMountedRef

\* C12: a copy() call made with the capability present performs exactly one
\* write, of its text, and when that write has succeeded its continuation sets
\* copiedText to the text, invokes onSuccess exactly once if it was given,
\* does not invoke onError, and resolves to true.
C12_SuccessfulWrite ==
  [][/\ (clipboard /\ Len(copies') = Len(copies) + 1)
        => writes' = Append(writes, copies'[Len(copies')].text)
    /\ Len(copies') = Len(copies) => writes' = writes
    /\ \A j \in 1..Len(copies) :
         (copies[j].st = "settled" /\ copies[j].ok /\ copies'[j].st = "done")
           => /\ copiedText' = Str(copies[j].text)
              /\ copies'[j].nSuccess = (IF copies[j].onSuccess # "none" THEN 1 ELSE 0)
              /\ copies'[j].nError = 0
              /\ copies'[j].result = "true"]_vars

\* C13: when the write of a copy() call has failed with e, its continuation
\* sets copiedText to null, invokes onError exactly once if it was given, with
\* e itself if e is an Error and otherwise with a new Error whose message is
\* String(e), does not invoke onSuccess, and resolves to false.
C13_FailedWrite ==
  [][\A j \in 1..Len(copies) :
       (copies[j].st = "settled" /\ ~copies[j].ok /\ copies'[j].st = "done")
         => LET e == copies[j].val
                given == copies[j].onError # "none"
                errArg == copies'[j].errArg
            IN /\ copiedText' = Null
               /\ copies'[j].nError = (IF given THEN 1 ELSE 0)
               /\ given => IF e.type = "Error"
                             THEN errArg = e
                             ELSE /\ errArg.type = "Error"
                                  /\ errArg.ref = 0
                                  /\ errArg.str = String(e)
               /\ copies'[j].nSuccess = 0
               /\ copies'[j].result = "false"]_vars

\* C14: a copy() call made while the capability is missing attempts no write,
\* invokes onError exactly once if it was given, with an Error whose message
\* is 'Clipboard not supported', does not invoke onSuccess, and resolves to
\* false.
C14_CapabilityAbsent ==
  [][(~clipboard /\ Len(copies') = Len(copies) + 1)
       => LET c == copies'[Len(copies')]
              given == c.onError # "none"
          IN /\ writes' = writes
             /\ c.st = "done"
             /\ c.nError = (IF given THEN 1 ELSE 0)
             /\ given => (c.errArg.type = "Error"
                            /\ c.errArg.str = "Clipboard not supported")
             /\ c.nSuccess = 0
             /\ c.result = "false"]_vars

\* C15: right after a copy() call made while the capability is missing,
\* copiedText is null: it stays null if it was null and returns to null if
\* an earlier copy had set it.
C15_AbsentAfterUnsupported ==
  [][(~clipboard /\ Len(copies') = Len(copies) + 1) => copiedText' = Null]_vars

\* C16: every completed copy() call given both callbacks has invoked exactly
\* one of them, once; it resolved to true exactly when that one was onSuccess
\* and the write succeeded, and to false exactly when it was onError; and two
\* calls with the same outcome resolved to the same boolean, with or without
\* callbacks.
C16_ResultAndCallbacksAgree ==
  /\ \A j \in 1..Len(copies) :
       LET c == copies[j]
       IN (c.st = "done" /\ c.onSuccess # "none" /\ c.onError # "none")
            => /\ c.nSuccess + c.nError = 1
               /\ c.result = "true" <=> (c.nSuccess = 1 /\ c.ok)
               /\ c.result = "false" <=> c.nError = 1
  /\ \A j, k \in 1..Len(copies) :
       (copies[j].st = "done" /\ copies[k].st = "done"
          /\ Outcome(copies[j]) = Outcome(copies[k]))
         => copies[j].result = copies[k].result

\* C17: no copy() call raises or rejects to its caller: every completed call
\* resolved to true or to false, whether the capability was missing, the
\* write failed or the write succeeded, and whatever its callbacks did.
C17_CopyNeverRaises ==
  \A j \in 1..Len(copies) :
    copies[j].st = "done" => copies[j].result \in {"true", "false"}

\* C18: every change of status follows one of the edges idle->loading,
\* success->loading and error->loading by an execute() call, loading->success
\* by the continuation of a fulfilled call, loading->error by the continuation
\* of a rejected call, and any status->idle by reset() -- also in runs with
\* overlapping calls and with reset() while a call is pending.
C18_AllowedTransitions ==
  [][status' # status
       => \/ /\ status \in {"idle", "success", "error"} /\ status' = "loading"
             /\ last'.op \in {"execute", "mount", "rerender"} /\ last'.inv > 0
          \/ /\ status = "loading" /\ status' = "success"
             /\ last'.op = "resume" /\ invs[last'.inv].ok
          \/ /\ status = "loading" /\ status' = "error"
             /\ last'.op = "resume" /\ ~invs[last'.inv].ok
          \/ /\ status' = "idle"
             /\ last'.op = "reset"]_vars

\* C19: when two execute() calls were pending at once on a live consumer,
\* both complete, and right after the continuation of the one that settles
\* last status, data and error are those of that call: success, its result
\* and null, or error, null and its error -- whichever call was started last.
C19_LastSettledWins ==
  (/\ ResumedLast /\ isMountedRef
   /\ Len(invs) = 2 /\ ~invs[2].seq
   /\ invs[1].st = "done" /\ invs[2].st = "done")
    => LET c == invs[last.inv]
       IN IF c.ok
            THEN status = "success" /\ data = c.val /\ error = Null
            ELSE /\ status = "error" /\ data = Null
                 /\ IF c.val.type = "Error"
                      THEN error = c.val
                      ELSE error.type = "Error" /\ error.str = String(c.val)

\* C20: a live tracker that is idle while a call is still open has been reset
\* during that call: data and error are null, they and status stay so until a
\* continuation, an execute() or a reset() runs, and the continuation of the
\* call applies its outcome over the reset state: success with its result, or
\* error with its error.
C20_ResetWhilePending ==
  [][(/\ status = "idle" /\ isMountedRef
      /\ \E i \in 1..Len(invs) : invs[i].st # "done")
       => /\ data = Null /\ error = Null
          /\ last'.op = "other" => UNCHANGED cells
          /\ last'.op = "resume"
               => LET c == invs[last'.inv]
                  IN IF c.ok
                       THEN status' = "success" /\ data' = c.val /\ error' = Null
                       ELSE /\ status' = "error" /\ data' = Null
                            /\ IF c.val.type = "Error"
                                 THEN error' = c.val
                                 ELSE /\ error'.type = "Error"
                                      /\ error'.str = String(c.val)]_vars

\* C20 witness: call 2 failed while call 1 was pending, reset() cleared the
\* error, then call 1 fulfilled: its result stands in the reset state
C20_Witness ==
  /\ ResumedLast /\ last.inv = 1
  /\ Len(invs) = 2 /\ ~invs[2].seq
  /\ invs[1].ok
  /\ invs[2].st = "done" /\ ~invs[2].ok
  /\ isMountedRef
  /\ status = "success" /\ data = invs[1].val /\ error = Null

\* C21: when several copy() calls are pending at once none is queued or
\* dropped -- each call made with the capability present writes at once --
\* and the continuation of each sets copiedText from its own write alone, its
\* text if the write succeeded and null if it failed, so that the final
\* copiedText is that of the call that settled last, whichever was started
\* last.
C21_LastWriteWins ==
  [][/\ (/\ clipboard /\ Len(copies') = Len(copies) + 1
         /\ \E k \in 1..Len(copies) : copies[k].st # "done")
        => /\ writes' = Append(writes, copies'[Len(copies')].text)
           /\ copies'[Len(copies')].st = "writing"
           /\ \A k \in 1..Len(copies) : copies'[k] = copies[k]
    /\ \A j \in 1..Len(copies) :
         (/\ copies[j].st = "settled" /\ copies'[j].st = "done"
          /\ Len(copies) >= 2)
           => /\ copiedText' = (IF copies[j].ok THEN Str(copies[j].text) ELSE Null)
              /\ \A k \in 1..Len(copies) : k # j => copies'[k] = copies[k]]_vars

\* C22: in every state, whatever the interleaving of execute(), reset(),
\* settlements and teardown, status = idle or status = loading implies
\* data = null and error = null: a result or an error is visible only
\* together with status success or error.
C22_NoStalePayload ==
  /\ status \in {"idle", "loading"} => (data = Null /\ error = Null)
  /\ (data # Null \/ error # Null) => status \in {"success", "error"}

\* C22 witness: two overlapping calls, the first fulfilled and the second
\* rejected, then reset(): nothing of either is left
C22_Witness ==
  /\ Len(invs) = 2 /\ ~invs[2].seq
  /\ invs[1].st = "done" /\ invs[1].ok
  /\ invs[2].st = "done" /\ ~invs[2].ok
  /\ last.op = "reset"
  /\ status = "idle" /\ data = Null /\ error = Null

====
